---- MODULE Spec2Model ----
(***************************************************************************)
(* A model of wintertoo's request validation (wintertoo/validate.py,       *)
(* wintertoo/database.py) and schedule construction                        *)
(* (wintertoo/schedule.py).                                                *)
(*                                                                         *)
(* Times are Modified Julian Dates in whole days; priorities are whole     *)
(* numbers; a string that the code inspects character by character (the PI *)
(* name, a filter name) is a tuple of one-character strings.               *)
(***************************************************************************)
EXTENDS Integers, Sequences, FiniteSets, TLC

VARIABLES
    schedule_request,        \* the schedule DataFrame: a sequence of rows
    program_name,            \* argument of validate_schedule_request
    program_api_key,         \* argument of validate_schedule_request
    programs,                \* the program table of the database
    filter_name,             \* argument of validate_filter
    entry,                   \* the function the caller invoked
    pc,                      \* position inside the invoked function
    programs_query_results,  \* the record get_and_validate_program_details returned
    outcome,                 \* how the call ended
    lookups,                 \* <<name, key>> of every database query issued
    n_up,                    \* number of up_tonight calls made
    n_validated,             \* number of validate_schedule_df calls made
    ra_degs, dec_degs,       \* arguments of build_schedule
    nights, filters,         \* arguments, then locals, of build_schedule
    schedule,                \* build_schedule's DataFrame: a sequence of rows
    loop,                    \* build_schedule's position in its three loops
    request,                 \* what the caller of a schedule.py function passes
    params,                  \* build_schedule's parameters, as bound by its caller
    submitted                \* whether make_too_request_from_df was called

validateVars == <<schedule_request, program_name, program_api_key, programs,
                  filter_name, programs_query_results, lookups, n_up, n_validated>>

callVars == <<request, params, submitted>>

buildVars == <<ra_degs, dec_degs, nights, filters, schedule, loop, callVars>>

vars == <<validateVars, buildVars, entry, pc, outcome>>

(***************************************************************************)
(* Bounds and program constants                                            *)
(***************************************************************************)
MaxRows == 2

MaxLen == 2

MaxValidations == 2

MAX_TARGET_PRIORITY == 100

\* SUMMER_FILTERS, the list; schedule.py imports it as summer_filters.
summer_filters == <<"u", "g", "r", "i">>

\* The same names as validate_filter tests them, each a tuple of characters.
SUMMER_FILTERS == {<<summer_filters[k]>> : k \in 1..Len(summer_filters)}

None == [none |-> TRUE]

\* An optional argument that is given: not None.
Some(x) == [some |-> x]

(***************************************************************************)
(* Helpers                                                                 *)
(***************************************************************************)
Min(S) == CHOOSE x \in S : \A y \in S : x <= y

\* A loop that reports the last offending row instead of stopping at the first.
LastRow(bad) == IF bad = {} THEN 0 ELSE CHOOSE x \in bad : \A y \in bad : y <= x

\* DataFrame.iterrows() with a raise in the loop body: the index of the first
\* row of those the body raises on, 0 when the loop runs to its end.
FirstRow(bad) == IF bad = {} THEN 0 ELSE Min(bad)

\* The rows of df, by index, that the loop body's test holds of.
Rows(df) == 1..Len(df)

SeqsUpTo(S, n) == UNION {[1..k -> S] : k \in 0..n}

Whitespace == {" ", "\t"}

RECURSIVE LStrip(_)
LStrip(s) ==
    IF s # <<>> /\ Head(s) \in Whitespace THEN LStrip(Tail(s)) ELSE s

RECURSIVE RStrip(_)
RStrip(s) ==
    IF s # <<>> /\ s[Len(s)] \in Whitespace
    THEN RStrip(SubSeq(s, 1, Len(s) - 1))
    ELSE s

\* str.strip()
Strip(s) == RStrip(LStrip(s))

LowerChar(c) ==
    CASE c = "U" -> "u" [] c = "G" -> "g" [] c = "R" -> "r" [] c = "I" -> "i"
      [] c = "Y" -> "y" [] c = "J" -> "j" [] OTHER -> c

\* str.lower()
Lower(s) == [i \in 1..Len(s) |-> LowerChar(s[i])]

\* Time(str(date), format="isot").mjd for a date <<year, month, day>>: the
\* Modified Julian Date of that day's midnight.
IsotToMjd(date) ==
    LET y == date[1]
        m == date[2]
        d == date[3]
        a == (14 - m) \div 12
        yy == y + 4800 - a
        mm == m + 12 * a - 3
        jdn == d + ((153 * mm + 2) \div 5) + 365 * yy + (yy \div 4)
               - (yy \div 100) + (yy \div 400) - 32045
    IN  jdn - 2400001

(***************************************************************************)
(* External capabilities                                                   *)
(***************************************************************************)
\* jsonschema.validate(row, too_db_schedule_config): the schema document is
\* data outside the sources; a row records whether it conforms.
SchemaValid(row) == row.schemaOk

\* up_tonight(time_mjd, ra, dec)[0]: the ephemeris. A fixed sky: the target at
\* RA 10 is up on every night, the one at RA 30 sets before MJD 59217, the one
\* at RA 50 rises after MJD 59215.
up_tonight(time_mjd, ra, dec) ==
    CASE ra = 30 -> time_mjd < 59217
      [] ra = 50 -> time_mjd > 59215
      [] OTHER   -> TRUE

(***************************************************************************)
(* wintertoo/database.py                                                   *)
(***************************************************************************)
\* The WHERE clause of the query.
ProgramMatches(rec, name, key) == rec.progname = name /\ rec.prog_key = key

\* get_program_details: the matching rows, in table order, without "id".
get_program_details(table, name, key) ==
    LET Hit(rec) == ProgramMatches(rec, name, key)
        hits == SelectSeq(table, Hit)
    IN  [i \in 1..Len(hits) |->
            [progname |-> hits[i].progname, prog_key |-> hits[i].prog_key,
             piname |-> hits[i].piname, basepriority |-> hits[i].basepriority,
             startdate |-> hits[i].startdate, enddate |-> hits[i].enddate]]

(***************************************************************************)
(* wintertoo/validate.py: the per-row tests of the validators              *)
(***************************************************************************)
\* outcome: how a call ended. A raise records the exception type, the function
\* raising it, the row its loop was at (0 outside a loop) and its message.
Raise(exc, fn, row, msg) ==
    [kind |-> "raise", exc |-> exc, fn |-> fn, row |-> row, msg |-> msg]
Return == [kind |-> "return", exc |-> "", fn |-> "", row |-> 0, msg |-> ""]
Running == [kind |-> "none", exc |-> "", fn |-> "", row |-> 0, msg |-> ""]

\* The second length test dropped.
ResolutionError_FirstOfMany(data) ==
    IF Len(data) = 0 THEN "Found no match in program database" ELSE ""

\* get_and_validate_program_details, lines 59-68: the message of the error to
\* raise on the query's result, "" when there is none.
ResolutionError(data) ==
    IF Len(data) = 0 THEN "Found no match in program database"
    ELSE IF Len(data) > 1 THEN "Found multiple matches in program database"
    ELSE ""

\* validate_target_visibility, loop body: the instants tried, in order.
VisibilityTimes(row) == <<row.validStart, row.validStop>>

\* The end of the window not tried.
NotVisible_StartOnly(row) ==
    ~up_tonight(VisibilityTimes(row)[1], row.raDeg, row.decDeg)

\* validate_target_visibility, loop body: the row for which the error is raised.
NotVisible(row) ==
    \E k \in 1..2 : ~up_tonight(VisibilityTimes(row)[k], row.raDeg, row.decDeg)

\* Number of up_tonight calls the loop body makes on a row.
UpCalls(row) ==
    IF ~up_tonight(VisibilityTimes(row)[1], row.raDeg, row.decDeg) THEN 1 ELSE 2

calculate_overall_priority(target_priority, program_base_priority) ==
    target_priority + program_base_priority

\* The ceiling itself refused.
PriorityExceeds_AtCeiling(row, max_priority) == row.priority >= max_priority

\* validate_target_priority, loop body.
PriorityExceeds(row, max_priority) == row.priority > max_priority

\* The comparison inverted.
PiDiffers_Inverted(row, prog_pi) == row.progPI = prog_pi

\* validate_target_pi, loop body.
PiDiffers(row, prog_pi) == row.progPI # prog_pi

\* The program's last day refused.
DatesError_EndExclusive(row, program_start_date, program_end_date) ==
    LET start_time == row.validStart
        stop_time  == row.validStop
    IN  IF start_time > stop_time THEN "Start time is after stop time"
        ELSE IF start_time < program_start_date
        THEN "Start time is before program start date"
        ELSE IF stop_time >= program_end_date
        THEN "Stop time is after program end date"
        ELSE ""

\* validate_target_dates, loop body: err after the if / elif / elif chain, ""
\* standing for None.
DatesError(row, program_start_date, program_end_date) ==
    LET start_time == row.validStart
        stop_time  == row.validStop
    IN  IF start_time > stop_time THEN "Start time is after stop time"
        ELSE IF start_time < program_start_date
        THEN "Start time is before program start date"
        ELSE IF stop_time > program_end_date
        THEN "Stop time is after program end date"
        ELSE ""

\* validate_target_dates, lines 230-232: err is not None.
DatesBad(row, program_start_date, program_end_date) ==
    DatesError(row, program_start_date, program_end_date) # ""

\* list(set(schedule_request["progName"]))
ProgNames(df) == {df[i].progName : i \in 1..Len(df)}

\* The database's PI name taken as stored.
ProgramPi_Untrimmed(rec) == rec.piname

\* programs_query_results["piname"].strip()
ProgramPi(rec) == Strip(rec.piname)

(***************************************************************************)
(* Actions                                                                 *)
(***************************************************************************)
Fail(exc, fn, row, msg) ==
    /\ outcome' = Raise(exc, fn, row, msg)
    /\ pc' = "done"

\* The ValidationError logged and not raised.
SchemaRow_Swallowed(df) == 0

\* validate_schedule_df, lines 99-101: the row whose validate_schedule_json
\* raises, 0 when every row validates.
SchemaRow(df) == FirstRow({r \in Rows(df) : ~SchemaValid(df[r])})

\* validate_schedule_request, line 255: validate_schedule_df.
ValidateScheduleDf ==
    /\ pc = "start"
    /\ entry' = "validate_schedule_request"
    /\ n_validated' = n_validated + 1
    /\ LET i == SchemaRow(schedule_request)
       IN  IF i # 0
           THEN Fail("RequestValidationError", "validate_schedule_json", i, "ValidationError")
           ELSE pc' = "visibility" /\ UNCHANGED outcome
    /\ UNCHANGED buildVars
    /\ UNCHANGED <<schedule_request, program_name, program_api_key, programs,
                   filter_name, programs_query_results, lookups, n_up>>

\* validate_schedule_df, called on its own as in tests/test_schedule.py, and
\* called again on the same schedule.
ValidateScheduleDfAlone ==
    /\ \/ pc = "start"
       \/ pc = "done" /\ entry = "validate_schedule_df" /\ n_validated < MaxValidations
    /\ entry' = "validate_schedule_df"
    /\ n_validated' = n_validated + 1
    /\ LET i == SchemaRow(schedule_request)
       IN  IF i # 0
           THEN Fail("RequestValidationError", "validate_schedule_json", i, "ValidationError")
           ELSE outcome' = Return /\ pc' = "done"
    /\ UNCHANGED buildVars
    /\ UNCHANGED <<schedule_request, program_name, program_api_key, programs,
                   filter_name, programs_query_results, lookups, n_up>>

RECURSIVE SumUpCalls(_, _)
SumUpCalls(df, n) == IF n = 0 THEN 0 ELSE SumUpCalls(df, n - 1) + UpCalls(df[n])

\* validate_schedule_request, line 256: validate_target_visibility.
ValidateTargetVisibility ==
    /\ pc = "visibility"
    /\ LET i == FirstRow({r \in Rows(schedule_request) : NotVisible(schedule_request[r])})
       IN  IF i # 0
           THEN /\ Fail("RequestValidationError", "validate_target_visibility", i,
                     "The following target is not visible on requested date")
                /\ n_up' = n_up + SumUpCalls(schedule_request, i)
           ELSE /\ pc' = "prog_names"
                /\ n_up' = n_up + SumUpCalls(schedule_request, Len(schedule_request))
                /\ UNCHANGED outcome
    /\ UNCHANGED buildVars
    /\ UNCHANGED n_validated
    /\ UNCHANGED <<schedule_request, program_name, program_api_key, programs,
                   filter_name, entry, programs_query_results, lookups>>

\* validate_schedule_request, lines 257-258.
CheckProgNames ==
    /\ pc = "prog_names"
    /\ IF Cardinality(ProgNames(schedule_request)) # 1
       THEN Fail("AssertionError", "validate_schedule_request", 0, "")
       ELSE pc' = "resolve" /\ UNCHANGED outcome
    /\ UNCHANGED buildVars
    /\ UNCHANGED n_validated
    /\ UNCHANGED <<schedule_request, program_name, program_api_key, programs,
                   filter_name, entry, programs_query_results, lookups, n_up>>

\* get_and_validate_program_details, called on its own (pc = "start") or from
\* validate_schedule_request, lines 261-267 (pc = "resolve").
GetAndValidateProgramDetails ==
    /\ pc \in {"start", "resolve"}
    /\ entry' = IF pc = "start" THEN "get_and_validate_program_details" ELSE entry
    /\ lookups' = Append(lookups, <<program_name, program_api_key>>)
    /\ LET data == get_program_details(programs, program_name, program_api_key)
           err == ResolutionError(data)
       IN  IF err # ""
           THEN /\ Fail("RequestValidationError", "get_and_validate_program_details", 0, err)
                /\ UNCHANGED programs_query_results
           ELSE /\ programs_query_results' = data[1]
                /\ IF pc = "start"
                   THEN outcome' = Return /\ pc' = "done"
                   ELSE pc' = "pi" /\ UNCHANGED outcome
    /\ UNCHANGED buildVars
    /\ UNCHANGED n_validated
    /\ UNCHANGED <<schedule_request, program_name, program_api_key, programs,
                   filter_name, n_up>>

\* validate_schedule_request, lines 269-270: validate_target_pi.
ValidateTargetPi ==
    /\ pc = "pi"
    /\ LET program_pi == ProgramPi(programs_query_results)
           i == FirstRow({r \in Rows(schedule_request) :
                              PiDiffers(schedule_request[r], program_pi)})
       IN  IF i # 0
           THEN Fail("RequestValidationError", "validate_target_pi", i, "")
           ELSE pc' = "priority" /\ UNCHANGED outcome
    /\ UNCHANGED buildVars
    /\ UNCHANGED n_validated
    /\ UNCHANGED <<schedule_request, program_name, program_api_key, programs,
                   filter_name, entry, programs_query_results, lookups, n_up>>

\* validate_schedule_request, lines 272-275: validate_target_priority.
ValidateTargetPriority ==
    /\ pc = "priority"
    /\ LET max_priority == calculate_overall_priority(
                               MAX_TARGET_PRIORITY, programs_query_results.basepriority)
           i == FirstRow({r \in Rows(schedule_request) :
                              PriorityExceeds(schedule_request[r], max_priority)})
       IN  IF i # 0
           THEN Fail("RequestValidationError", "validate_target_priority", i,
                     "Target priority exceeds maximum allowed value")
           ELSE pc' = "dates" /\ UNCHANGED outcome
    /\ UNCHANGED buildVars
    /\ UNCHANGED n_validated
    /\ UNCHANGED <<schedule_request, program_name, program_api_key, programs,
                   filter_name, entry, programs_query_results, lookups, n_up>>

\* validate_schedule_request, lines 277-285: validate_target_dates, then return.
ValidateTargetDates ==
    /\ pc = "dates"
    /\ LET program_start_date == IsotToMjd(programs_query_results.startdate)
           program_end_date == IsotToMjd(programs_query_results.enddate)
           i == FirstRow({r \in Rows(schedule_request) :
                              DatesBad(schedule_request[r], program_start_date,
                                       program_end_date)})
       IN  IF i # 0
           THEN Fail("RequestValidationError", "validate_target_dates", i,
                     DatesError(schedule_request[i], program_start_date,
                                program_end_date))
           ELSE outcome' = Return /\ pc' = "done"
    /\ UNCHANGED buildVars
    /\ UNCHANGED n_validated
    /\ UNCHANGED <<schedule_request, program_name, program_api_key, programs,
                   filter_name, entry, programs_query_results, lookups, n_up>>

FilterNames == {<<"u">>, <<"R">>, <<"z">>, <<"H", "s">>}

\* validate_filter, called on its own.
ValidateFilter ==
    /\ pc = "start"
    /\ \E f \in FilterNames :
          /\ filter_name' = f
          /\ entry' = "validate_filter"
          /\ IF Lower(f) \in SUMMER_FILTERS
             THEN outcome' = Return /\ pc' = "done"
             ELSE Fail("AssertionError", "validate_filter", 0, "")
    /\ UNCHANGED buildVars
    /\ UNCHANGED n_validated
    /\ UNCHANGED <<schedule_request, program_name, program_api_key, programs,
                   programs_query_results, lookups, n_up>>

Next ==
    \/ ValidateScheduleDf
    \/ ValidateScheduleDfAlone
    \/ ValidateTargetVisibility
    \/ CheckProgNames
    \/ GetAndValidateProgramDetails
    \/ ValidateTargetPi
    \/ ValidateTargetPriority
    \/ ValidateTargetDates
    \/ ValidateFilter

(***************************************************************************)
(* wintertoo/schedule.py: build_schedule                                   *)
(***************************************************************************)
\* t_0, as a day: to_date_string keeps the date of a time.
T0 == 59215

\* to_date_string(t_0 + days * u.day)
to_date_string(t_0, days) == t_0 + days

\* The columns of a DataFrame built by appending rows: none before the first.
Columns(df) == IF df = <<>> THEN {} ELSE DOMAIN df[1]

\* Numbers of schedule.py that may carry a fraction (exposure time and count,
\* airmass, seeing) are in tenths: 15 is 1.5.
\* int(x)
AsInt(x) == (x \div 10) * 10

\* ["n", "y"][dither_bool]
DitherFlag(dither_bool) == IF dither_bool THEN "y" ELSE "n"

\* The dict appended at lines 53-69.
ScheduleRow(night, ra_deg, dec_deg, f) ==
    [RA_deg |-> ra_deg, Dec_deg |-> dec_deg, Filter |-> f,
     Texp |-> params.texp, Nexp |-> params.nexp,
     Dither |-> DitherFlag(params.dither_bool),
     Dither_distance |-> params.dither_distance,
     PI |-> params.pi, propID |-> params.prog_id,
     Earliest_UT_Date |-> to_date_string(T0, night - 1),
     UT_Start_Time |-> "00:00:00.02",
     Latest_UT_Date |-> to_date_string(T0, night),
     UT_Finish_Time |-> "00:00:00.01",
     Maximum_Airmass |-> params.maximum_airmass,
     Maximum_Seeing |-> params.maximum_seeing]

\* schedule.astype({"Nexp": int})
AsTypeNexpInt(df) == [i \in 1..Len(df) |-> [df[i] EXCEPT !.Nexp = AsInt(@)]]

\* The defaults of build_schedule's and make_schedule's signatures, lines
\* 25-30 and 86-91.
BuildDefaultParams ==
    [texp |-> 3000, nexp |-> 10, dither_bool |-> TRUE, dither_distance |-> "",
     maximum_airmass |-> 15, maximum_seeing |-> 30]

\* A direct call of build_schedule or make_schedule: every keyword the caller
\* passes is bound to the parameter of its name.
DirectCall(r) ==
    [texp |-> r.texp, nexp |-> r.nexp, dither_bool |-> r.dither_bool,
     dither_distance |-> r.dither_distance,
     maximum_airmass |-> r.maximum_airmass, maximum_seeing |-> r.maximum_seeing,
     pi |-> r.pi, prog_id |-> r.prog_id]

\* make_schedule's call of build_schedule, lines 97-112: every parameter is
\* passed on under its name.
MakeScheduleCall(p) ==
    [texp |-> p.texp, nexp |-> p.nexp, dither_bool |-> p.dither_bool,
     dither_distance |-> p.dither_distance,
     maximum_airmass |-> p.maximum_airmass, maximum_seeing |-> p.maximum_seeing,
     pi |-> p.pi, prog_id |-> p.prog_id]

\* schedule_ra_dec's call of make_schedule, lines 161-176: t_exp, n_exp,
\* dither_bool, dither_distance, pi and prog_id are passed; maximum_airmass is
\* not, and schedule_ra_dec has no maximum_seeing, so make_schedule's defaults
\* stand for both.
ScheduleRaDecCall(r) ==
    [texp |-> r.texp, nexp |-> r.nexp, dither_bool |-> r.dither_bool,
     dither_distance |-> r.dither_distance,
     maximum_airmass |-> BuildDefaultParams.maximum_airmass,
     maximum_seeing |-> BuildDefaultParams.maximum_seeing,
     pi |-> r.pi, prog_id |-> r.prog_id]

\* The field grid: id, centre.
SummerFields ==
    <<[ID |-> 1, RA |-> 0, Dec |-> 20], [ID |-> 2, RA |-> 20, Dec |-> 20],
      [ID |-> 3, RA |-> 40, Dec |-> 30]>>

Abs(x) == IF x < 0 THEN -x ELSE x

FieldSeparation(field, ra_deg, dec_deg) ==
    Abs(field.RA - ra_deg) + Abs(field.Dec - dec_deg)

\* get_best_summer_field(ra_deg, dec_deg): the field nearest to the position,
\* the lowest id among equals.
get_best_summer_field(ra_deg, dec_deg) ==
    LET best == CHOOSE k \in 1..Len(SummerFields) :
                    \A j \in 1..Len(SummerFields) :
                        LET dk == FieldSeparation(SummerFields[k], ra_deg, dec_deg)
                            dj == FieldSeparation(SummerFields[j], ra_deg, dec_deg)
                        IN  dk < dj \/ (dk = dj /\ k <= j)
    IN  SummerFields[best]

\* schedule_ra_dec, lines 149-176, up to its call of make_schedule.
ScheduleRaDec ==
    /\ pc = "build"
    /\ entry' = "schedule_ra_dec"
    /\ \E ra_deg \in {10, 30}, dec_deg \in {20} :
          IF ~request.summer
          THEN /\ Fail("NotImplementedError", "schedule_ra_dec", 0, "")
               /\ UNCHANGED <<ra_degs, dec_degs, params>>
          ELSE /\ LET best_field == get_best_summer_field(ra_deg, dec_deg)
                  IN  /\ ra_degs' = IF request.use_field THEN <<best_field.RA>>
                                                          ELSE <<ra_deg>>
                      /\ dec_degs' = IF request.use_field THEN <<best_field.Dec>>
                                                           ELSE <<dec_deg>>
               /\ params' = ScheduleRaDecCall(request)
               /\ pc' = "make_schedule"
               /\ UNCHANGED outcome
    /\ UNCHANGED <<nights, filters, schedule, loop, request, submitted>>
    /\ UNCHANGED validateVars

\* make_schedule, lines 97-112: its call of build_schedule, made by the caller
\* (pc = "build") or by schedule_ra_dec.
MakeSchedule ==
    /\ pc \in {"build", "make_schedule"}
    /\ entry' = IF pc = "build" THEN "make_schedule" ELSE entry
    /\ params' = MakeScheduleCall(IF pc = "build" THEN DirectCall(request) ELSE params)
    /\ pc' = "build_schedule"
    /\ UNCHANGED <<ra_degs, dec_degs, nights, filters, schedule, loop, request,
                   submitted, outcome>>
    /\ UNCHANGED validateVars

\* Lines 36-43: the defaults of nights and filters, the empty DataFrame, and
\* the entry into the loops; called by the caller (pc = "build") or by
\* make_schedule.
BuildDefaults ==
    /\ pc \in {"build", "build_schedule"}
    /\ entry' = IF pc = "build" THEN "build_schedule" ELSE entry
    /\ params' = IF pc = "build" THEN DirectCall(request) ELSE params
    /\ nights' = IF nights = None THEN <<1, 2, 3>> ELSE nights.some
    /\ filters' = IF filters = None THEN summer_filters ELSE filters.some
    /\ schedule' = <<>>
    /\ loop' = [night |-> 1, target |-> 0, filter |-> 0]
    /\ pc' = "for night"
    /\ UNCHANGED <<ra_degs, dec_degs, request, submitted, outcome>>
    /\ UNCHANGED validateVars

\* Line 45: the next night, or the end of the loop over the nights.
BuildNextNight ==
    /\ pc = "for night"
    /\ IF loop.night <= Len(nights)
       THEN /\ loop' = [loop EXCEPT !.target = 1]
            /\ pc' = "for target"
       ELSE /\ pc' = "astype"
            /\ UNCHANGED loop
    /\ UNCHANGED <<ra_degs, dec_degs, nights, filters, schedule, entry, outcome>>
    /\ UNCHANGED callVars
    /\ UNCHANGED validateVars

\* Lines 49-50: the next target and its dec_degs[i], or the end of the loop
\* over the targets.
BuildNextTarget ==
    /\ pc = "for target"
    /\ IF loop.target <= Len(ra_degs)
       THEN IF loop.target > Len(dec_degs)
            THEN /\ Fail("IndexError", "build_schedule", 0, "list index out of range")
                 /\ UNCHANGED loop
            ELSE /\ loop' = [loop EXCEPT !.filter = 1]
                 /\ pc' = "for filter"
                 /\ UNCHANGED outcome
       ELSE /\ loop' = [loop EXCEPT !.night = @ + 1]
            /\ pc' = "for night"
            /\ UNCHANGED outcome
    /\ UNCHANGED <<ra_degs, dec_degs, nights, filters, schedule, entry>>
    /\ UNCHANGED callVars
    /\ UNCHANGED validateVars

\* Lines 52-69: the next filter and the row appended for it, or the end of
\* the loop over the filters.
BuildAppend ==
    /\ pc = "for filter"
    /\ IF loop.filter <= Len(filters)
       THEN /\ schedule' = Append(schedule,
                                  ScheduleRow(nights[loop.night], ra_degs[loop.target],
                                              dec_degs[loop.target], filters[loop.filter]))
            /\ loop' = [loop EXCEPT !.filter = @ + 1]
            /\ UNCHANGED pc
       ELSE /\ loop' = [loop EXCEPT !.target = @ + 1]
            /\ pc' = "for target"
            /\ UNCHANGED schedule
    /\ UNCHANGED <<ra_degs, dec_degs, nights, filters, entry, outcome>>
    /\ UNCHANGED callVars
    /\ UNCHANGED validateVars

\* Lines 71-76: schedule.astype({"Nexp": int}), which raises KeyError for a
\* key that is no column, and the return, to the caller or to make_schedule.
BuildFinish ==
    /\ pc = "astype"
    /\ IF "Nexp" \notin Columns(schedule)
       THEN /\ Fail("KeyError", "build_schedule", 0,
                    "Only a column name can be used for the key in a dtype mappings argument.")
            /\ UNCHANGED schedule
       ELSE /\ schedule' = AsTypeNexpInt(schedule)
            /\ IF entry = "build_schedule"
               THEN outcome' = Return /\ pc' = "done"
               ELSE pc' = "submit" /\ UNCHANGED outcome
    /\ UNCHANGED <<ra_degs, dec_degs, nights, filters, loop, entry>>
    /\ UNCHANGED callVars
    /\ UNCHANGED validateVars

\* make_schedule, lines 114-127, and schedule_ra_dec, line 178: the request
\* made if submit is set, and the schedule returned.
MakeScheduleSubmit ==
    /\ pc = "submit"
    /\ submitted' = request.submit
    /\ outcome' = Return
    /\ pc' = "done"
    /\ UNCHANGED <<ra_degs, dec_degs, nights, filters, schedule, loop, request,
                   params, entry>>
    /\ UNCHANGED validateVars

NextBuild ==
    \/ BuildDefaults
    \/ BuildNextNight
    \/ BuildNextTarget
    \/ BuildAppend
    \/ BuildFinish

NextEntry ==
    \/ ScheduleRaDec
    \/ MakeSchedule
    \/ MakeScheduleSubmit
    \/ NextBuild

(***************************************************************************)
(* Inputs                                                                  *)
(***************************************************************************)
PiStein == <<"S", "t">>
PiOther == <<"K", "u">>

ProgramRec(id, name, key, pi, base, start, end) ==
    [id |-> id, progname |-> name, prog_key |-> key, piname |-> pi,
     basepriority |-> base, startdate |-> start, enddate |-> end]

\* The program of the test in tests/test_schedule.py, with a short window.
ProgramA == ProgramRec(1, "2021A000", "keyA", PiStein, 100, <<2021, 1, 1>>, <<2021, 1, 3>>)
ProgramB == ProgramRec(2, "2021B000", "keyB", PiStein, 100, <<2021, 1, 1>>, <<2021, 1, 3>>)

RowsOf(SchemaOk, Ra, Name, Pi, Priority, Start, Stop) ==
    [schemaOk : SchemaOk, raDeg : Ra, decDeg : {20}, progName : Name, progPI : Pi,
     priority : Priority, validStart : Start, validStop : Stop]

InitWith(RowSet, Names, Keys, Tables) ==
    /\ schedule_request \in SeqsUpTo(RowSet, MaxRows)
    /\ program_name \in Names
    /\ program_api_key \in Keys
    /\ programs \in Tables
    /\ filter_name = None
    /\ entry = "none"
    /\ pc = "start"
    /\ programs_query_results = None
    /\ outcome = Running
    /\ lookups = <<>>
    /\ n_up = 0
    /\ n_validated = 0
    /\ ra_degs = <<>> /\ dec_degs = <<>>
    /\ nights = None /\ filters = None
    /\ schedule = <<>>
    /\ loop = None
    /\ request = None /\ params = None /\ submitted = FALSE

\* One program, one key; the rows vary in what each of the four checks finds.
RowsOrder ==
    RowsOf({TRUE}, {10, 30, 50}, {"2021A000"}, {PiStein, PiOther}, {200, 201},
           {59215}, {59217, 59218})

Init == InitWith(RowsOrder, {"2021A000"}, {"keyA"}, {<<ProgramA, ProgramB>>})

Spec == Init /\ [][Next]_vars

\* Program resolution: the rows name one of two programs or both, the caller
\* names a program and gives a key, and the table holds none, one or two
\* records for a name and key.
ProgramA2 == ProgramRec(3, "2021A000", "keyA", PiOther, 0, <<2021, 1, 1>>, <<2021, 1, 3>>)

RowsProg ==
    RowsOf(BOOLEAN, {10, 30}, {"2021A000", "2021B000"}, {PiStein}, {200},
           {59215}, {59217})

InitProg ==
    InitWith(RowsProg, {"2021A000", "2021B000", "2022C000"}, {"keyA", "keyB"},
             {<<ProgramA, ProgramB>>, <<ProgramA>>, <<ProgramA, ProgramB, ProgramA2>>, <<>>})

SpecProg == InitProg /\ [][Next]_vars

\* Priorities: rows at, below and above the ceiling of programs of base
\* priority 100 and 0.
ProgramLow == ProgramRec(4, "2021A000", "keyA", PiStein, 0, <<2021, 1, 1>>, <<2021, 1, 3>>)

RowsPriority ==
    RowsOf({TRUE}, {10}, {"2021A000"}, {PiStein}, {0, 100, 101, 200, 201},
           {59215}, {59217})

InitPriority ==
    InitWith(RowsPriority, {"2021A000"}, {"keyA"}, {<<ProgramA>>, <<ProgramLow, ProgramB>>})

SpecPriority == InitPriority /\ [][Next]_vars

\* Dates: validity windows around the first and last day of the program.
ProgramEarly ==
    ProgramRec(5, "2021A000", "keyA", PiStein, 100, <<2020, 12, 31>>, <<2021, 1, 2>>)

RowsDates ==
    RowsOf({TRUE}, {10}, {"2021A000"}, {PiStein}, {200},
           59214..59218, 59214..59218)

InitDates ==
    InitWith(RowsDates, {"2021A000"}, {"keyA"}, {<<ProgramA>>, <<ProgramB, ProgramEarly>>})

SpecDates == InitDates /\ [][Next]_vars

\* PI names: with and without whitespace around them, in the rows and in the
\* database.
ProgramPadded ==
    ProgramRec(6, "2021A000", "keyA", <<" ", "S", "t", "\t">>, 100,
               <<2021, 1, 1>>, <<2021, 1, 3>>)
ProgramSpaced ==
    ProgramRec(7, "2021A000", "keyA", <<"S", " ", "t">>, 100,
               <<2021, 1, 1>>, <<2021, 1, 3>>)

RowsPi ==
    RowsOf({TRUE}, {10}, {"2021A000"},
           {PiStein, <<" ", "S", "t">>, <<"S", "t", " ">>, <<" ", "S", "t", "\t">>,
            <<"S", " ", "t">>, <<"S", "t", "t">>},
           {200}, {59215}, {59217})

InitPi ==
    InitWith(RowsPi, {"2021A000"}, {"keyA"},
             {<<ProgramA>>, <<ProgramPadded>>, <<ProgramSpaced, ProgramB>>})

SpecPi == InitPi /\ [][Next]_vars

\* Acceptance: rows that conform to the schema or not, are up at both ends of
\* their window, at one end or the other, and agree or not with the program in
\* PI, priority and end date; the table holds one record for the name and
\* key, two, or none.
RowsAccept ==
    RowsOf(BOOLEAN, {10, 30, 50}, {"2021A000"}, {PiStein, PiOther}, {200, 201},
           {59215}, {59217, 59218})

InitAccept ==
    InitWith(RowsAccept, {"2021A000"}, {"keyA"},
             {<<ProgramB, ProgramA>>, <<ProgramA, ProgramA2>>, <<ProgramB>>})

SpecAccept == InitAccept /\ [][Next]_vars

\* The signature defaults, as a caller's request.
DefaultRequest ==
    [texp |-> 3000, nexp |-> 10, dither_bool |-> TRUE, dither_distance |-> "",
     maximum_airmass |-> 15, maximum_seeing |-> 30, pi |-> "Stein",
     prog_id |-> "2021A000", summer |-> TRUE, use_field |-> TRUE, submit |-> FALSE]

\* Before a call of schedule.py: nothing built, nothing bound.
BuildState ==
    /\ schedule = <<>>
    /\ loop = None
    /\ params = None
    /\ submitted = FALSE
    /\ entry = "none"
    /\ pc = "build"
    /\ outcome = Running

\* The variables of validate.py, which schedule.py leaves alone.
ValidateUnused ==
    /\ schedule_request = <<>>
    /\ program_name = None /\ program_api_key = None
    /\ programs = <<>>
    /\ filter_name = None
    /\ programs_query_results = None
    /\ lookups = <<>>
    /\ n_up = 0
    /\ n_validated = 0

\* build_schedule: lists of up to MaxLen nights, targets and filters, with
\* repeats, and the defaults.
InitBuild ==
    /\ ra_degs \in SeqsUpTo({10, 30}, MaxLen)
    /\ dec_degs \in SeqsUpTo({20}, MaxLen)
    /\ nights \in {None} \cup {Some(l) : l \in SeqsUpTo({1, 2}, MaxLen)}
    /\ filters \in {None} \cup {Some(l) : l \in SeqsUpTo({"u", "r"}, MaxLen)}
    /\ request = DefaultRequest
    /\ BuildState
    /\ ValidateUnused

SpecBuild == InitBuild /\ [][NextBuild]_vars

\* The three entry points of schedule.py, called with exposure, dither,
\* airmass and seeing values at and away from the defaults.
Requests ==
    [texp : {3000, 600}, nexp : {10, 30}, dither_bool : BOOLEAN,
     dither_distance : {"", "30"}, maximum_airmass : {15, 20},
     maximum_seeing : {30, 20}, pi : {"Stein"}, prog_id : {"2021A000"},
     summer : BOOLEAN, use_field : BOOLEAN, submit : BOOLEAN]

InitEntry ==
    /\ ra_degs \in {<<10>>, <<10, 30>>}
    /\ dec_degs \in {<<20, 20>>}
    /\ nights \in {None, Some(<<2>>)}
    /\ filters \in {None, Some(<<"r", "r">>), Some(<<>>)}
    /\ request \in Requests
    /\ BuildState
    /\ ValidateUnused

SpecEntry == InitEntry /\ [][NextEntry]_vars


(***************************************************************************)
(* What the claims speak of, stated on the rows' own fields                *)
(***************************************************************************)
Called == entry = "validate_schedule_request"
Ended == pc = "done" /\ Called
Rejected == Ended /\ outcome.kind = "raise"
RejectedBy(fn) == Rejected /\ outcome.fn = fn
Accepted == Ended /\ outcome.kind = "return"

RowIdx == 1..Len(schedule_request)

\* The record the program lookup yields for the call's name and key, if unique.
Matching == {k \in 1..Len(programs) :
                /\ programs[k].progname = program_name
                /\ programs[k].prog_key = program_api_key}
Resolves == Cardinality(Matching) = 1
Resolved == programs[CHOOSE k \in Matching : TRUE]

RowSchemaBad(i) == ~schedule_request[i].schemaOk
RowNotUp(i) ==
    LET row == schedule_request[i]
    IN  \/ ~up_tonight(row.validStart, row.raDeg, row.decDeg)
        \/ ~up_tonight(row.validStop, row.raDeg, row.decDeg)
RowPiBad(i) == schedule_request[i].progPI # Strip(Resolved.piname)
RowPriorityBad(i) ==
    schedule_request[i].priority > MAX_TARGET_PRIORITY + Resolved.basepriority
RowDatesBad(i) ==
    LET row == schedule_request[i]
    IN  \/ row.validStart > row.validStop
        \/ row.validStart < IsotToMjd(Resolved.startdate)
        \/ row.validStop > IsotToMjd(Resolved.enddate)
RowFailsAny(i) == RowNotUp(i) \/ RowPiBad(i) \/ RowPriorityBad(i) \/ RowDatesBad(i)

FourChecks == {"validate_target_visibility", "validate_target_pi",
               "validate_target_priority", "validate_target_dates"}

FirstOf(S) == IF S = {} THEN 0 ELSE Min(S)

(***************************************************************************)
(* C1                                                                      *)
(***************************************************************************)
\* C1 as stated: a rejection by one of the four per-row checks is a failure of
\* the lowest-indexed row that fails any of the four checks.
C1_FirstFailingRowReported ==
    (Rejected /\ Resolves /\ outcome.fn \in FourChecks)
        => outcome.row = FirstOf({i \in RowIdx : RowFailsAny(i)})

\* C1 amended: the four checks run one validator after the other, in the order
\* visibility, PI, priority, dates, each over all rows in row order. The
\* rejection belongs to the first validator in that order that some row fails,
\* and to the lowest-indexed row failing that validator; a schedule with a row
\* failing any of the four is rejected.
C1_FirstFailingCheckThenRow ==
    /\ RejectedBy("validate_target_visibility")
          => outcome.row = FirstOf({i \in RowIdx : RowNotUp(i)})
    /\ RejectedBy("validate_target_pi")
          => /\ \A i \in RowIdx : ~RowNotUp(i)
             /\ outcome.row = FirstOf({i \in RowIdx : RowPiBad(i)})
    /\ RejectedBy("validate_target_priority")
          => /\ \A i \in RowIdx : ~RowNotUp(i) /\ ~RowPiBad(i)
             /\ outcome.row = FirstOf({i \in RowIdx : RowPriorityBad(i)})
    /\ RejectedBy("validate_target_dates")
          => /\ \A i \in RowIdx : ~RowNotUp(i) /\ ~RowPiBad(i) /\ ~RowPriorityBad(i)
             /\ outcome.row = FirstOf({i \in RowIdx : RowDatesBad(i)})
    /\ (Rejected /\ outcome.fn \in FourChecks) => outcome.row \in RowIdx
    /\ (Ended /\ Resolves /\ \E i \in RowIdx : RowFailsAny(i)) => Rejected

\* A later row's visibility failure is reported although an earlier row fails
\* the date check; and a first-row failure is reported with a second row failing too.
C1_Witness ==
    /\ RejectedBy("validate_target_visibility")
    /\ Len(schedule_request) = 2
    /\ outcome.row = 2
    /\ RowDatesBad(1)
    /\ ~RowNotUp(1)

(***************************************************************************)
(* C2                                                                      *)
(***************************************************************************)
PiMismatch ==
    /\ Resolves
    /\ \E i \in RowIdx : Strip(schedule_request[i].progPI) # Strip(Resolved.piname)

\* C2 as stated: a schedule with a PI mismatch never ends in a visibility
\* rejection.
C2_NoVisibilityRejectionOnPiMismatch ==
    (Ended /\ PiMismatch) => ~RejectedBy("validate_target_visibility")

\* C2 amended: a schedule with a PI mismatch is always rejected, and never with
\* a priority or date rejection; but visibility is checked before the PI. If
\* every row conforms to the schema, the run ends in a visibility rejection
\* when some row is not observable at its start or stop instant, and in the PI
\* rejection (of the first mismatching row) when every row is observable and
\* the rows name one program.
C2_VisibilityThenPiMismatch ==
    (Ended /\ PiMismatch) =>
        /\ Rejected
        /\ outcome.fn \notin {"validate_target_priority", "validate_target_dates"}
        /\ (\A i \in RowIdx : ~RowSchemaBad(i)) =>
              IF \E i \in RowIdx : RowNotUp(i)
              THEN outcome.fn = "validate_target_visibility"
              ELSE Cardinality({schedule_request[i].progName : i \in RowIdx}) = 1
                      => /\ outcome.fn = "validate_target_pi"
                         /\ outcome.exc = "RequestValidationError"
                         /\ outcome.row = FirstOf({i \in RowIdx : RowPiBad(i)})

\* Both cases happen: a mismatch hidden behind a visibility rejection ...
C2_Witness ==
    /\ Ended /\ PiMismatch
    /\ \E i \in RowIdx : RowNotUp(i)
    /\ RowPiBad(1) /\ ~RowNotUp(1)
    /\ outcome.fn = "validate_target_visibility"

\* ... and a mismatch reported.
C2_WitnessPi ==
    /\ Ended /\ PiMismatch
    /\ outcome.fn = "validate_target_pi" /\ outcome.row = 2

(***************************************************************************)
(* C3                                                                      *)
(***************************************************************************)
\* C3: every call that ends in a rejection, of validate_schedule_request or of
\* validate_filter, ends in a RequestValidationError; so does the rejection of
\* a schedule whose rows name more than one program.
C3_EveryRejectionIsRequestValidationError ==
    (pc = "done" /\ entry \in {"validate_schedule_request", "validate_filter"}
        /\ outcome.kind = "raise")
        => outcome.exc = "RequestValidationError"

(***************************************************************************)
(* C4                                                                      *)
(***************************************************************************)
\* C4: on every accepting run, the name passed to the program lookup is the
\* progName of every row.
C4_LookupNameIsRowsProgram ==
    Accepted => /\ Len(lookups) = 1
                /\ \A i \in RowIdx : schedule_request[i].progName = lookups[1][1]

(***************************************************************************)
(* C5                                                                      *)
(***************************************************************************)
WithoutId(rec) ==
    [progname |-> rec.progname, prog_key |-> rec.prog_key, piname |-> rec.piname,
     basepriority |-> rec.basepriority, startdate |-> rec.startdate,
     enddate |-> rec.enddate]

Looked == lookups # <<>> /\ pc # "resolve"
ResolutionRaised(msg) ==
    /\ pc = "done" /\ outcome.kind = "raise"
    /\ outcome.exc = "RequestValidationError"
    /\ outcome.fn = "get_and_validate_program_details"
    /\ outcome.msg = msg

\* C5: once get_and_validate_program_details has run, it has returned a record
\* iff exactly one table row matches the name and the key, and then that row;
\* with no match it has raised the not-found RequestValidationError, with two
\* or more the multiple-matches RequestValidationError, and returned nothing.
C5_ExactlyOneMatch ==
    Looked =>
        /\ lookups = <<(<<program_name, program_api_key>>)>>
        /\ (programs_query_results # None) <=> Resolves
        /\ Resolves => /\ programs_query_results = WithoutId(Resolved)
                       /\ ~ResolutionRaised(outcome.msg)
                       /\ entry = "get_and_validate_program_details"
                             => pc = "done" /\ outcome.kind = "return"
        /\ Matching = {} => ResolutionRaised("Found no match in program database")
        /\ Cardinality(Matching) >= 2
              => ResolutionRaised("Found multiple matches in program database")

\* The three cases: two records for one name and key ...
C5_Witness ==
    /\ Looked /\ Cardinality(Matching) = 2
    /\ ResolutionRaised("Found multiple matches in program database")

\* ... no record for the key given, though the name is in the table ...
C5_WitnessNone ==
    /\ Looked /\ Matching = {}
    /\ \E k \in 1..Len(programs) : programs[k].progname = program_name
    /\ ResolutionRaised("Found no match in program database")

\* ... and the one record.
C5_WitnessOne ==
    /\ Looked /\ Resolves /\ programs_query_results # None
    /\ Len(programs) = 3

(***************************************************************************)
(* C6                                                                      *)
(***************************************************************************)
PriorityRan ==
    \/ pc = "dates"
    \/ Ended /\ (outcome.kind = "return"
                  \/ outcome.fn \in {"validate_target_priority", "validate_target_dates"})

\* C6: once validate_target_priority has run, it has rejected the schedule iff
\* some row's priority is above 100 + the program's base priority, and then
\* for the first such row; a priority equal to the ceiling passes.
C6_PriorityCeiling ==
    PriorityRan =>
        LET over == {i \in RowIdx : schedule_request[i].priority
                                       > 100 + programs_query_results.basepriority}
        IN  /\ RejectedBy("validate_target_priority") <=> over # {}
            /\ RejectedBy("validate_target_priority")
                  => outcome.row = Min(over) /\ outcome.exc = "RequestValidationError"
            /\ calculate_overall_priority(100, programs_query_results.basepriority)
                  = 100 + programs_query_results.basepriority

\* Base priority 100: a row of priority 200 has passed the priority check.
C6_Witness ==
    /\ PriorityRan /\ ~RejectedBy("validate_target_priority")
    /\ programs_query_results.basepriority = 100
    /\ \E i \in RowIdx : schedule_request[i].priority = 200

\* Base priority 100: a row of priority 201 is rejected.
C6_WitnessOver ==
    /\ RejectedBy("validate_target_priority")
    /\ programs_query_results.basepriority = 100
    /\ schedule_request[outcome.row].priority = 201

(***************************************************************************)
(* C7                                                                      *)
(***************************************************************************)
DatesRan ==
    Ended /\ (outcome.kind = "return" \/ outcome.fn = "validate_target_dates")

\* The Modified Julian Dates of the program dates of the tables, from the
\* calendar.
CalendarMjd(date) ==
    CASE date = <<2020, 12, 31>> -> 59214
      [] date = <<2021, 1, 1>>   -> 59215
      [] date = <<2021, 1, 2>>   -> 59216
      [] date = <<2021, 1, 3>>   -> 59217

\* C7: once validate_target_dates has run, it has rejected the schedule iff
\* some row has validStart > validStop, or validStart before the program's
\* start date, or validStop after the program's end date; rows starting on the
\* start date and stopping on the end date pass.
C7_DateWindow ==
    DatesRan =>
        LET first == CalendarMjd(programs_query_results.startdate)
            last  == CalendarMjd(programs_query_results.enddate)
            bad == {i \in RowIdx :
                       \/ schedule_request[i].validStart > schedule_request[i].validStop
                       \/ schedule_request[i].validStart < first
                       \/ schedule_request[i].validStop > last}
        IN  /\ RejectedBy("validate_target_dates") <=> bad # {}
            /\ RejectedBy("validate_target_dates")
                  => outcome.row = Min(bad) /\ outcome.exc = "RequestValidationError"

\* A row starting on the program's first day and stopping on its last is
\* accepted.
C7_Witness ==
    /\ Accepted
    /\ \E i \in RowIdx :
          /\ schedule_request[i].validStart = CalendarMjd(programs_query_results.startdate)
          /\ schedule_request[i].validStop = CalendarMjd(programs_query_results.enddate)
          /\ schedule_request[i].validStart < schedule_request[i].validStop

(***************************************************************************)
(* C8                                                                      *)
(***************************************************************************)
PiRan ==
    \/ pc \in {"priority", "dates"}
    \/ Ended /\ (outcome.kind = "return"
                  \/ outcome.fn \in {"validate_target_pi", "validate_target_priority",
                                     "validate_target_dates"})

\* C8 as stated: the PI check fails iff the row's PI and the database's PI
\* name differ after trimming whitespace from both.
C8_PiComparedTrimmedBothSides ==
    PiRan =>
        (RejectedBy("validate_target_pi")
            <=> \E i \in RowIdx :
                    Strip(schedule_request[i].progPI) # Strip(programs_query_results.piname))

\* C8 amended: the PI check fails iff the row's PI, as given, differs from the
\* database's PI name with its leading and trailing whitespace removed. Only
\* the database's side is trimmed: whitespace around the database's name is
\* ignored, whitespace around the row's PI is a mismatch.
C8_PiComparedWithTrimmedDatabaseName ==
    PiRan =>
        LET bad == {i \in RowIdx :
                       schedule_request[i].progPI # Strip(programs_query_results.piname)}
        IN  /\ RejectedBy("validate_target_pi") <=> bad # {}
            /\ RejectedBy("validate_target_pi")
                  => outcome.row = Min(bad) /\ outcome.exc = "RequestValidationError"

\* The database's name is padded, the row's is not: the PI check has passed.
C8_Witness ==
    /\ PiRan /\ ~RejectedBy("validate_target_pi")
    /\ RowIdx # {}
    /\ programs_query_results.piname # Strip(programs_query_results.piname)

\* The row's PI is padded, the database's is not: rejected.
C8_WitnessRow ==
    /\ RejectedBy("validate_target_pi")
    /\ programs_query_results.piname = PiStein
    /\ Strip(schedule_request[outcome.row].progPI) = PiStein

(***************************************************************************)
(* C9                                                                      *)
(***************************************************************************)
Built == pc = "done" /\ entry = "build_schedule"
Paired == Len(ra_degs) = Len(dec_degs)

\* The row for a night, a target and a filter, by 0-based positions.
RowAt(a, b, c) ==
    LET night == nights[a + 1]
    IN  /\ schedule[(a * Len(ra_degs) + b) * Len(filters) + c + 1].Earliest_UT_Date
              = T0 + night - 1
        /\ schedule[(a * Len(ra_degs) + b) * Len(filters) + c + 1].Latest_UT_Date
              = T0 + night
        /\ schedule[(a * Len(ra_degs) + b) * Len(filters) + c + 1].RA_deg = ra_degs[b + 1]
        /\ schedule[(a * Len(ra_degs) + b) * Len(filters) + c + 1].Dec_deg = dec_degs[b + 1]
        /\ schedule[(a * Len(ra_degs) + b) * Len(filters) + c + 1].Filter = filters[c + 1]

RowsInOrder ==
    /\ outcome.kind = "return"
    /\ Len(schedule) = Len(nights) * Len(ra_degs) * Len(filters)
    /\ \A a \in 0..(Len(nights) - 1), b \in 0..(Len(ra_degs) - 1),
          c \in 0..(Len(filters) - 1) : RowAt(a, b, c)

\* C9: for every list of nights, of targets and of filters, build_schedule
\* returns len(nights) * len(targets) * len(filters) rows, the row at index
\* (a*T + b)*F + c carrying night a, target b and filter c.
C9_RowsNightTargetFilterMajor ==
    (Built /\ Paired) => RowsInOrder

\* What the code does keep: the count and the order whenever a row is emitted.
C9_HoldsUnlessEmpty ==
    (Built /\ Paired /\ Len(nights) * Len(ra_degs) * Len(filters) > 0) => RowsInOrder

(***************************************************************************)
(* C10                                                                     *)
(***************************************************************************)
\* C10: with no nights or no filters, build_schedule completes without error
\* and returns a schedule of 0 rows.
C10_EmptyRequestReturnsNoRows ==
    (Built /\ (nights = <<>> \/ filters = <<>>))
        => outcome.kind = "return" /\ Len(schedule) = 0

\* What the code does there: no row, and the KeyError of astype.
C10_EmptyRequestRaisesKeyError ==
    (Built /\ (nights = <<>> \/ filters = <<>>))
        => outcome.kind = "raise" /\ outcome.exc = "KeyError" /\ Len(schedule) = 0

(***************************************************************************)
(* C11                                                                     *)
(***************************************************************************)
Scheduled ==
    /\ pc = "done" /\ outcome.kind = "return"
    /\ entry \in {"build_schedule", "make_schedule", "schedule_ra_dec"}

\* The parameters of the claim that an entry point takes: schedule_ra_dec has
\* no maximum_seeing.
RowCarries(row) ==
    /\ row.Texp = request.texp
    /\ row.Nexp = request.nexp
    /\ row.Dither = (IF request.dither_bool THEN "y" ELSE "n")
    /\ row.Dither_distance = request.dither_distance
    /\ row.Maximum_Airmass = request.maximum_airmass
    /\ entry # "schedule_ra_dec" => row.Maximum_Seeing = request.maximum_seeing

\* C11: through each of schedule_ra_dec, make_schedule and build_schedule,
\* every row of the returned schedule holds the exposure time, exposure
\* count, dither flag, dither distance, airmass ceiling and seeing ceiling the
\* caller gave.
C11_RequestValuesOnEveryRow ==
    Scheduled => \A i \in 1..Len(schedule) : RowCarries(schedule[i])

\* What the code does keep: all six through build_schedule and make_schedule,
\* and through schedule_ra_dec all but the airmass ceiling, which is 1.5 on
\* every row whatever the caller gave.
C11_AllButAirmassOfScheduleRaDec ==
    Scheduled =>
        \A i \in 1..Len(schedule) :
            IF entry = "schedule_ra_dec"
            THEN /\ schedule[i].Texp = request.texp
                 /\ schedule[i].Nexp = request.nexp
                 /\ schedule[i].Dither = (IF request.dither_bool THEN "y" ELSE "n")
                 /\ schedule[i].Dither_distance = request.dither_distance
                 /\ schedule[i].Maximum_Airmass = 15
                 /\ schedule[i].Maximum_Seeing = 30
            ELSE RowCarries(schedule[i])

\* Rows are returned through every entry point, with values off the defaults.
C11_RowsThroughMakeSchedule ==
    /\ Scheduled /\ entry = "make_schedule" /\ Len(schedule) > 1
    /\ request.maximum_airmass = 20 /\ request.maximum_seeing = 20
    /\ request.texp = 600 /\ request.submit /\ submitted

(***************************************************************************)
(* C12                                                                     *)
(***************************************************************************)
SchemaBadRows == {i \in RowIdx : ~schedule_request[i].schemaOk}

SchemaRaised(i) ==
    /\ pc = "done" /\ outcome.kind = "raise"
    /\ outcome.exc = "RequestValidationError"
    /\ outcome.fn = "validate_schedule_json"
    /\ outcome.row = i

\* C12: validate_schedule_request validates every row against the schema, in
\* row order, before any other step: once called on a schedule with a row that
\* violates the schema it has ended in the validation error of the first such
\* row, with no up_tonight call and no database query made; a visibility check
\* or a database query is only ever made for a schedule whose rows all
\* conform. validate_schedule_df on its own returns without error for a
\* schedule whose rows all conform, on the first call and on the next, and
\* raises for the first violating row otherwise.
C12_SchemaFirst ==
    /\ (Called /\ SchemaBadRows # {})
          => /\ SchemaRaised(Min(SchemaBadRows))
             /\ n_up = 0 /\ lookups = <<>>
    /\ (Called /\ (n_up > 0 \/ lookups # <<>> \/ pc # "done")) => SchemaBadRows = {}
    /\ Called => n_validated = 1
    /\ entry = "validate_schedule_df"
          => /\ pc = "done" /\ n_validated \in 1..MaxValidations
             /\ n_up = 0 /\ lookups = <<>>
             /\ IF SchemaBadRows = {}
                THEN outcome.kind = "return"
                ELSE SchemaRaised(Min(SchemaBadRows))

\* The second row violates the schema and the first, which conforms, is not
\* observable: the run has ended in the schema error of row 2 with no
\* up_tonight call made.
C12_Witness ==
    /\ Called /\ Len(schedule_request) = 2
    /\ SchemaBadRows = {2} /\ RowNotUp(1)
    /\ SchemaRaised(2) /\ n_up = 0

\* A conforming schedule validated twice.
C12_WitnessAgain ==
    /\ entry = "validate_schedule_df" /\ n_validated = 2
    /\ Len(schedule_request) = 2 /\ SchemaBadRows = {}
    /\ outcome.kind = "return"

(***************************************************************************)
(* C13                                                                     *)
(***************************************************************************)
RowAcceptable(i) ==
    LET row == schedule_request[i]
    IN  /\ row.schemaOk
        /\ ~RowNotUp(i)
        /\ row.priority <= MAX_TARGET_PRIORITY + Resolved.basepriority
        /\ row.progPI = Strip(Resolved.piname)
        /\ CalendarMjd(Resolved.startdate) <= row.validStart
        /\ row.validStart <= row.validStop
        /\ row.validStop <= CalendarMjd(Resolved.enddate)

AcceptedOnlyIfAllPass ==
    Accepted => /\ Resolves
                /\ programs_query_results = WithoutId(Resolved)
                /\ \A i \in RowIdx : RowAcceptable(i)

RowsUntouched == schedule_request' = schedule_request

\* C13: validate_schedule_request returns normally only if the lookup for the
\* call's name and key matched exactly one record and every row conforms to
\* the schema, is up at its validStart and at its validStop, has priority at
\* most MAX_TARGET_PRIORITY plus that record's base priority, declares that
\* record's PI, and has its window within the record's start and end dates;
\* and no step of validation changes the schedule.
C13_AcceptanceAllOrNothing == []AcceptedOnlyIfAllPass /\ [][RowsUntouched]_vars

\* A schedule of two rows accepted.
C13_Witness == Accepted /\ Len(schedule_request) = 2

\* Rejected with a first row that passes everything and a second that is up
\* at the start of its window only.
C13_WitnessRejected ==
    /\ Rejected /\ Resolves /\ Len(schedule_request) = 2
    /\ RowAcceptable(1)
    /\ schedule_request[2].raDeg = 30 /\ schedule_request[2].validStop = 59217

====
